---- MODULE Spec2Model ----
(***************************************************************************)
(* Model of the llm-swarm MCP server: the batch dispatcher                 *)
(* (batch-processor.ts), the usage ledger (usage-tracker.ts), the cost     *)
(* estimator (minimax-client.ts) and the two tool handlers (index.ts).     *)
(*                                                                         *)
(* Conventions                                                             *)
(*   - an optional JavaScript value is a sequence: <<>> is undefined and   *)
(*     <<x>> is the value x;                                               *)
(*   - a JavaScript number that may be NaN is NaN or Num(n);               *)
(*   - a text is a sequence of one-character strings;                      *)
(*   - a Date is its epoch milliseconds, an ISO timestamp is the record    *)
(*     [date, time] produced by toISOString and read back by ParseISO.     *)
(***************************************************************************)
EXTENDS Integers, Sequences, FiniteSets, TLC

VARIABLES
    \* ---- BatchProcessor (batch-processor.ts) ----
    env,                \* process.env.MINIMAX_MAX_CONCURRENCY (optional text)
    defaultConcurrency, \* BatchProcessor.defaultConcurrency
    tasks,              \* processBatch argument: sequence of task ids
    concurrency,        \* processBatch argument: optional integer
    maxConcurrent,      \* local of processBatch
    i,                  \* loop index of processBatch
    chunkIdx,           \* positions in tasks of the current chunk
    calls,              \* the chunk's promises: "pending" or a settled outcome
    results,            \* local results of processBatch
    summary,            \* returned summary (optional)
    bpc,                \* control point of processBatch
    gatewayLog,         \* positions of tasks whose Gateway call was issued
    settleLog,          \* <<position, outcome>> of the calls, in settling order
    peakOutstanding,    \* largest number of simultaneously pending calls
    \* ---- UsageTracker (usage-tracker.ts) ----
    now,                \* the clock: new Date() / Date.now(), in ms
    data,               \* UsageTracker.data (optional UsageData)
    file,               \* the durable file ~/.claude/llm-swarm-usage.json
    hist,               \* everything ever appended to the three collections
    last,               \* the last ledger operation: arguments, pre-state, outcome
    nOps,               \* number of ledger operations performed
    nTicks,             \* number of clock advances
    \* ---- the handlers (index.ts) ----
    clientOk,           \* client and batchProcessor were constructed
    call,               \* the handler invocations: control point and locals
    nLoads,             \* number of times the durable file was loaded
    \* ---- estimateCost (minimax-client.ts) ----
    usage,              \* the argument of estimateCost: token counts
    cost                \* what estimateCost returned for usage

batchVars == <<env, defaultConcurrency, tasks, concurrency, maxConcurrent, i,
               chunkIdx, calls, results, summary, bpc, gatewayLog,
               settleLog, peakOutstanding>>

ledgerVars == <<now, data, file, hist, last, nOps, nTicks>>

serverVars == <<clientOk, call, nLoads>>

costVars == <<usage, cost>>

vars == <<batchVars, ledgerVars, serverVars, costVars>>

----------------------------------------------------------------------------
(* Bounds of the model *)

MaxTasks == 3       \* longest task list explored (zod allows 1..50)
MaxConcArg == 3     \* caller-supplied concurrency values explored besides 20
MaxSpin == 3        \* iterations explored of a loop whose index runs away
MaxOps == 2         \* ledger operations explored in one run
MaxTicks == 1       \* clock advances explored in one run
MaxCalls == 2       \* handler invocations explored in one run
MaxTokens == 15     \* largest token count given to estimateCost on its own

----------------------------------------------------------------------------
(* JavaScript numbers and array slicing *)

NaN == [nan |-> TRUE]
Num(n) == [nan |-> FALSE, v |-> n]

\* a + b
JsAdd(a, b) == IF a.nan \/ b.nan THEN NaN ELSE Num(a.v + b.v)

\* a < n for an integer n: false when a is NaN
JsLt(a, n) == IF a.nan THEN FALSE ELSE a.v < n

\* ToIntegerOrInfinity followed by the clamping of Array.prototype.slice
SliceBound(a, len) ==
    LET r == IF a.nan THEN 0 ELSE a.v
    IN IF r < 0 THEN (IF len + r < 0 THEN 0 ELSE len + r)
                ELSE (IF r < len THEN r ELSE len)

\* mutant of SliceIdx: the slice takes one element too many
SliceIdx_OneMore(len, start, end) ==
    LET k == SliceBound(start, len)
        e == SliceBound(end, len)
        f == IF e < len THEN e + 1 ELSE len
        n == IF f - k < 0 THEN 0 ELSE f - k
    IN [j \in 1..n |-> k + j]

\* the 1-based positions selected by arr.slice(start, end) on length len
SliceIdx(len, start, end) ==
    LET k == SliceBound(start, len)
        f == SliceBound(end, len)
        n == IF f - k < 0 THEN 0 ELSE f - k
    IN [j \in 1..n |-> k + j]

----------------------------------------------------------------------------
(* parseInt(text, 10) *)

Digits == <<"0", "1", "2", "3", "4", "5", "6", "7", "8", "9">>

IsDigit(c) == \E d \in 1..10 : Digits[d] = c

DigitVal(c) == (CHOOSE d \in 1..10 : Digits[d] = c) - 1

\* length of the longest prefix of s made of digits
RECURSIVE DigitPrefixLen(_)
DigitPrefixLen(s) ==
    IF s = <<>> \/ ~IsDigit(Head(s)) THEN 0 ELSE 1 + DigitPrefixLen(Tail(s))

RECURSIVE DigitsValue(_, _)
DigitsValue(s, acc) ==
    IF s = <<>> THEN acc ELSE DigitsValue(Tail(s), 10 * acc + DigitVal(Head(s)))

ParseInt(s) ==
    LET neg  == s # <<>> /\ Head(s) = "-"
        body == IF s # <<>> /\ Head(s) \in {"-", "+"} THEN Tail(s) ELSE s
        n    == DigitPrefixLen(body)
    IN IF n = 0 THEN NaN
       ELSE LET v == DigitsValue(SubSeq(body, 1, n), 0)
            IN Num(IF neg THEN 0 - v ELSE v)

----------------------------------------------------------------------------
(* Cost estimator, in units of 1e-6 USD *)

\* PRICING, in 1e-2 USD per million tokens
input_per_million == 15
output_per_million == 120

\* mutant of CostHundredths: the output price is subtracted
CostHundredths_OutputSubtracted(u) ==
    u.input_tokens * input_per_million - u.output_tokens * output_per_million

\* in/1e6 * 0.15 + out/1e6 * 1.20 as an exact number, in units of 1e-8 USD
CostHundredths(u) ==
    u.input_tokens * input_per_million + u.output_tokens * output_per_million

\* Math.round((in/1e6 * 0.15 + out/1e6 * 1.20) * 1e6) / 1e6 on the exact
\* sum, Math.round rounding a half towards +infinity
estimateCost(u) == (CostHundredths(u) + 50) \div 100

\* what the double arithmetic of estimateCost can return: the products are
\* inexact, so a sum that is exactly a half lands just below or on the half
\* (14 input and 2 output tokens give 4e-6, 10 and 0 give 2e-6); every
\* other sum is at least 0.05 away from a half and rounds as the exact one
estimateCostValues(u) ==
    IF CostHundredths(u) % 100 = 50
    THEN {estimateCost(u) - 1, estimateCost(u)}
    ELSE {estimateCost(u)}

\* estimateCost at rest
CostQuiet == usage = [input_tokens |-> 0, output_tokens |-> 0] /\ cost = 0

----------------------------------------------------------------------------
(* BatchProcessor *)

TaskIds == {"a", "b"}

TaskLists == UNION {[1..n -> TaskIds] : n \in 1..MaxTasks}

\* zod: concurrency is an optional integer in 1..20
MAX_CONCURRENCY_ARG == 20
ConcurrencyArgs ==
    {<<>>} \cup {<<c>> : c \in (1..MaxConcArg) \cup {MAX_CONCURRENCY_ARG}}

\* values of MINIMAX_MAX_CONCURRENCY: unset, "", "2", "3", "0", "-1", "x", "2x"
EnvValues ==
    {<<>>, << <<>> >>, << <<"2">> >>, << <<"3">> >>, << <<"0">> >>,
     << <<"-", "1">> >>, << <<"x">> >>, << <<"2", "x">> >>}

\* what MinimaxClient.query settles with
ZeroUsage == [input_tokens |-> 0, output_tokens |-> 0]
Usages == {ZeroUsage, [input_tokens |-> 7, output_tokens |-> 3]}
ErrorMessages == {<<"E">>}
Fulfilled(u) == [status |-> "fulfilled", usage |-> u, reason |-> <<>>]
Rejected(m) == [status |-> "rejected", usage |-> ZeroUsage, reason |-> m]
Outcomes == {Fulfilled(u) : u \in Usages} \cup {Rejected(m) : m \in ErrorMessages}
Pending == [status |-> "pending", usage |-> ZeroUsage, reason |-> <<>>]

\* constructor: parseInt(process.env.MINIMAX_MAX_CONCURRENCY || "5", 10)
BatchProcessorNew(e) ==
    ParseInt(IF e = <<>> \/ e[1] = <<>> THEN <<"5">> ELSE e[1])

\* processTask resolved / the rejected branch of processBatch
BatchResultOf(id, o) ==
    IF o.status = "fulfilled"
    THEN [id |-> id, usage |-> o.usage, success |-> TRUE, error |-> <<>>]
    ELSE [id |-> id, usage |-> ZeroUsage, success |-> FALSE, error |-> <<o.reason>>]

RECURSIVE SumInput(_)
SumInput(rs) ==
    IF rs = <<>> THEN 0 ELSE Head(rs).usage.input_tokens + SumInput(Tail(rs))

RECURSIVE SumOutput(_)
SumOutput(rs) ==
    IF rs = <<>> THEN 0 ELSE Head(rs).usage.output_tokens + SumOutput(Tail(rs))

CountSucceeded(rs) == Cardinality({k \in 1..Len(rs) : rs[k].success})

BatchSummary(ts, rs) ==
    LET succeeded == CountSucceeded(rs)
        tin  == SumInput(rs)
        tout == SumOutput(rs)
    IN [total_tasks |-> Len(ts),
        succeeded |-> succeeded,
        failed |-> Len(ts) - succeeded,
        total_input_tokens |-> tin,
        total_output_tokens |-> tout,
        total_cost_usd |-> estimateCost([input_tokens |-> tin, output_tokens |-> tout])]

Outstanding == Cardinality({j \in 1..Len(calls) : calls[j].status = "pending"})

InitBatch ==
    /\ now = 0
    /\ data = <<>>
    /\ file = [kind |-> "absent", doc |-> <<>>]
    /\ hist = <<>>
    /\ last = <<>>
    /\ nOps = 0
    /\ nTicks = 0
    /\ clientOk = TRUE
    /\ call = <<>>
    /\ nLoads = 0
    /\ CostQuiet
    /\ env \in EnvValues
    /\ defaultConcurrency = BatchProcessorNew(env)
    /\ tasks \in TaskLists
    /\ concurrency \in ConcurrencyArgs
    /\ maxConcurrent = NaN
    /\ i = Num(0)
    /\ chunkIdx = <<>>
    /\ calls = <<>>
    /\ results = <<>>
    /\ summary = <<>>
    /\ bpc = "call"
    /\ gatewayLog = <<>>
    /\ settleLog = <<>>
    /\ peakOutstanding = 0

\* lines 46-48: maxConcurrent = concurrency ?? this.defaultConcurrency
ProcessBatchEnter ==
    /\ bpc = "call"
    /\ maxConcurrent' = IF concurrency = <<>> THEN defaultConcurrency
                        ELSE Num(concurrency[1])
    /\ results' = <<>>
    /\ i' = Num(0)
    /\ bpc' = "loop"
    /\ UNCHANGED <<env, defaultConcurrency, tasks, concurrency, chunkIdx, calls,
                   summary, gatewayLog, settleLog, peakOutstanding>>
    /\ UNCHANGED <<ledgerVars, serverVars, costVars>>

\* lines 51-55: the loop test holds; slice the chunk and start every
\* processTask of it (each issues its Gateway call before the first await)
DispatchChunk ==
    /\ bpc = "loop"
    /\ JsLt(i, Len(tasks))
    /\ i.v > 0 - MaxSpin
    /\ LET idx == SliceIdx(Len(tasks), i, JsAdd(i, maxConcurrent))
       IN /\ chunkIdx' = idx
          /\ calls' = [j \in 1..Len(idx) |-> Pending]
          /\ gatewayLog' = gatewayLog \o idx
          /\ peakOutstanding' =
                IF Len(idx) > peakOutstanding THEN Len(idx) ELSE peakOutstanding
    /\ bpc' = "await"
    /\ UNCHANGED <<env, defaultConcurrency, tasks, concurrency, maxConcurrent, i,
                   results, summary, settleLog>>
    /\ UNCHANGED <<ledgerVars, serverVars, costVars>>

\* one Gateway call of the chunk settles
SettleCall(j, o) ==
    /\ bpc = "await"
    /\ j \in 1..Len(calls)
    /\ calls[j].status = "pending"
    /\ calls' = [calls EXCEPT ![j] = o]
    /\ settleLog' = Append(settleLog, <<chunkIdx[j], o>>)
    /\ UNCHANGED <<env, defaultConcurrency, tasks, concurrency, maxConcurrent, i,
                   chunkIdx, results, summary, bpc, gatewayLog, peakOutstanding>>
    /\ UNCHANGED <<ledgerVars, serverVars, costVars>>

\* mutant of CollectChunk: a rejected task gets no result
CollectChunk_DropRejected ==
    /\ bpc = "await"
    /\ \A j \in 1..Len(calls) : calls[j].status # "pending"
    /\ results' = results \o
          SelectSeq([j \in 1..Len(calls) |-> BatchResultOf(tasks[chunkIdx[j]], calls[j])],
                    LAMBDA r : r.success)
    /\ i' = JsAdd(i, maxConcurrent)
    /\ chunkIdx' = <<>>
    /\ calls' = <<>>
    /\ bpc' = "loop"
    /\ UNCHANGED <<env, defaultConcurrency, tasks, concurrency, maxConcurrent,
                   summary, gatewayLog, settleLog, peakOutstanding>>
    /\ UNCHANGED <<ledgerVars, serverVars, costVars>>

\* mutant of CollectChunk: the loop goes on as soon as one call of the
\* chunk has settled
CollectChunk_NoBarrier ==
    /\ bpc = "await"
    /\ \E j \in 1..Len(calls) : calls[j].status # "pending"
    /\ results' = results \o
          [j \in 1..Len(calls) |-> BatchResultOf(tasks[chunkIdx[j]], calls[j])]
    /\ i' = JsAdd(i, maxConcurrent)
    /\ chunkIdx' = <<>>
    /\ calls' = <<>>
    /\ bpc' = "loop"
    /\ UNCHANGED <<env, defaultConcurrency, tasks, concurrency, maxConcurrent,
                   summary, gatewayLog, settleLog, peakOutstanding>>
    /\ UNCHANGED <<ledgerVars, serverVars, costVars>>

\* lines 53-70: Promise.allSettled resolves, the results are pushed in chunk
\* order, and the loop increment i += maxConcurrent runs
CollectChunk ==
    /\ bpc = "await"
    /\ \A j \in 1..Len(calls) : calls[j].status # "pending"
    /\ results' = results \o
          [j \in 1..Len(calls) |-> BatchResultOf(tasks[chunkIdx[j]], calls[j])]
    /\ i' = JsAdd(i, maxConcurrent)
    /\ chunkIdx' = <<>>
    /\ calls' = <<>>
    /\ bpc' = "loop"
    /\ UNCHANGED <<env, defaultConcurrency, tasks, concurrency, maxConcurrent,
                   summary, gatewayLog, settleLog, peakOutstanding>>
    /\ UNCHANGED <<ledgerVars, serverVars, costVars>>

\* lines 73-88: the loop test fails; build the summary and return
ProcessBatchReturn ==
    /\ bpc = "loop"
    /\ ~JsLt(i, Len(tasks))
    /\ summary' = <<BatchSummary(tasks, results)>>
    /\ bpc' = "done"
    /\ UNCHANGED <<env, defaultConcurrency, tasks, concurrency, maxConcurrent, i,
                   chunkIdx, calls, results, gatewayLog, settleLog, peakOutstanding>>
    /\ UNCHANGED <<ledgerVars, serverVars, costVars>>

NextBatch ==
    \/ ProcessBatchEnter
    \/ DispatchChunk
    \/ \E j \in 1..MaxTasks, o \in Outcomes : SettleCall(j, o)
    \/ CollectChunk
    \/ ProcessBatchReturn

SpecBatch == InitBatch /\ [][NextBatch]_vars

\* processBatch run by the event loop: a continuation that can run does run,
\* and every issued Gateway call eventually settles
SpecBatchFair ==
    /\ InitBatch
    /\ [][NextBatch]_vars
    /\ WF_vars(ProcessBatchEnter)
    /\ WF_vars(DispatchChunk)
    /\ WF_vars(\E j \in 1..MaxTasks, o \in Outcomes : SettleCall(j, o))
    /\ WF_vars(CollectChunk)
    /\ WF_vars(ProcessBatchReturn)

----------------------------------------------------------------------------
(* Dates and texts *)

DAY_MS == 86400000

\* Date.prototype.toISOString: the calendar date (the first 10 characters)
\* and the time of day
ToISO(t) == [date |-> t \div DAY_MS, time |-> t % DAY_MS]

\* new Date(iso).getTime()
ParseISO(iso) == iso.date * DAY_MS + iso.time

Chars == <<"a", "b", "c", "d", "e">>

\* a text of n characters whose characters differ from place to place
TextOfLen(n) == [k \in 1..n |-> Chars[(k % 5) + 1]]

\* String.prototype.slice(0, n)
SliceText(s, n) == SubSeq(s, 1, IF n < Len(s) THEN n ELSE Len(s))

----------------------------------------------------------------------------
(* UsageTracker *)

WINDOW_DURATION_MS == 18000000
MAX_PROMPTS_PER_WINDOW == 1000
MAX_RECENT_REQUESTS == 200
MAX_DAILY_TOTALS == 30
MAX_PIPELINE_RUNS == 10
MAX_ERROR_LENGTH == 500
TruncationMarker == <<".", ".", ".">>

createNewWindow(t) ==
    [window_start |-> ToISO(t),
     window_end |-> ToISO(t + WINDOW_DURATION_MS),
     prompt_count |-> 0,
     total_input_tokens |-> 0,
     total_output_tokens |-> 0,
     estimated_cost_usd |-> 0]

DefaultProvider ==
    [name |-> "minimax-m2.5",
     pricing |-> [input_per_million |-> input_per_million,
                  output_per_million |-> output_per_million]]

\* the catch branch of loadUsageData
FreshUsageData(t) ==
    [current_window |-> <<createNewWindow(t)>>,
     daily_totals |-> << <<>> >>,
     recent_requests |-> << <<>> >>,
     pipeline_runs |-> <<>>,
     provider |-> <<DefaultProvider>>]

\* mutant of loadUsageData: a missing provider is not defaulted
loadUsageData_NoProvider(f, t) ==
    IF f.kind = "json"
    THEN [f.doc EXCEPT
            !.recent_requests = IF @ = <<>> THEN << <<>> >> ELSE @]
    ELSE FreshUsageData(t)

\* readFile + JSON.parse + defaulting of the newer fields; a missing or
\* unparseable file takes the catch branch
loadUsageData(f, t) ==
    IF f.kind = "json"
    THEN [f.doc EXCEPT
            !.recent_requests = IF @ = <<>> THEN << <<>> >> ELSE @,
            !.provider = IF @ = <<>> THEN <<DefaultProvider>> ELSE @]
    ELSE FreshUsageData(t)

\* mutant of isWindowExpired: the window survives its exact end time
isWindowExpired_Strict(window, t) == t > ParseISO(window.window_end)

isWindowExpired(window, t) == t >= ParseISO(window.window_end)

getTodayDate(t) == ToISO(t).date

\* ensureLoaded: [threw, data]; reading current_window.window_end of a
\* document without current_window throws after this.data was assigned
ensureLoaded(d, f, t) ==
    LET loaded == IF d = <<>> THEN loadUsageData(f, t) ELSE d[1]
    IN IF loaded.current_window = <<>>
       THEN [threw |-> TRUE, data |-> <<loaded>>]
       ELSE IF isWindowExpired(loaded.current_window[1], t)
            THEN [threw |-> FALSE,
                  data |-> <<[loaded EXCEPT !.current_window = <<createNewWindow(t)>>]>>]
            ELSE [threw |-> FALSE, data |-> <<loaded>>]

\* mutant of LastN: the newest entries are the ones dropped
LastN_KeepOldest(arr, n) == IF Len(arr) > n THEN SubSeq(arr, 1, n) ELSE arr

\* arr.slice(-n)
LastN(arr, n) == IF Len(arr) > n THEN SubSeq(arr, Len(arr) - n + 1, Len(arr)) ELSE arr

\* mutant of TruncateError: the marker is left out
TruncateError_NoMarker(error) ==
    IF error = <<>> \/ error[1] = <<>> THEN <<>>
    ELSE IF Len(error[1]) > MAX_ERROR_LENGTH
         THEN <<SliceText(error[1], MAX_ERROR_LENGTH)>>
         ELSE error

\* lines 165-167: truncatedError
TruncateError(error) ==
    IF error = <<>> \/ error[1] = <<>> THEN <<>>
    ELSE IF Len(error[1]) > MAX_ERROR_LENGTH
         THEN <<SliceText(error[1], MAX_ERROR_LENGTH) \o TruncationMarker>>
         ELSE error

\* lines 170-181
RequestLogOf(params, t) ==
    [timestamp |-> ToISO(t),
     type |-> params.type,
     task_count |-> params.taskCount,
     input_tokens |-> params.inputTokens,
     output_tokens |-> params.outputTokens,
     cost_usd |-> params.costUsd,
     response_time_ms |-> params.responseTimeMs,
     caller |-> params.caller,
     error |-> TruncateError(params.error),
     failed_count |-> params.failedCount]

\* lines 184-190
PushRecent(rr, entry) ==
    LET pushed == Append(IF rr = <<>> THEN <<>> ELSE rr[1], entry)
    IN <<IF Len(pushed) > MAX_RECENT_REQUESTS
         THEN LastN(pushed, MAX_RECENT_REQUESTS) ELSE pushed>>

\* mutant of AddToWindow: every request counts as one prompt
AddToWindow_CountOne(w, params) ==
    [w EXCEPT !.prompt_count = @ + 1,
              !.total_input_tokens = @ + params.inputTokens,
              !.total_output_tokens = @ + params.outputTokens,
              !.estimated_cost_usd = @ + params.costUsd]

\* lines 193-196
AddToWindow(w, params) ==
    [w EXCEPT !.prompt_count = @ + params.taskCount,
              !.total_input_tokens = @ + params.inputTokens,
              !.total_output_tokens = @ + params.outputTokens,
              !.estimated_cost_usd = @ + params.costUsd]

\* daily_totals.find((d) => d.date === today): position of the first match, or 0
FindDay(dt, today) ==
    IF \E k \in 1..Len(dt) : dt[k].date = today
    THEN CHOOSE k \in 1..Len(dt) :
             dt[k].date = today /\ \A m \in 1..(k - 1) : dt[m].date # today
    ELSE 0

\* lines 198-210: find or create today's entry, cap at 30, add into the entry
UpdateDaily(dt, params, today) ==
    LET found == FindDay(dt, today)
        withToday ==
            IF found # 0 THEN dt
            ELSE LET pushed == Append(dt, [date |-> today, prompt_count |-> 0,
                                           total_input_tokens |-> 0,
                                           total_output_tokens |-> 0,
                                           estimated_cost_usd |-> 0])
                 IN IF Len(pushed) > MAX_DAILY_TOTALS
                    THEN LastN(pushed, MAX_DAILY_TOTALS) ELSE pushed
        pos == IF found # 0 THEN found ELSE Len(withToday)
    IN [withToday EXCEPT ![pos] =
          [@ EXCEPT !.prompt_count = @ + params.taskCount,
                    !.total_input_tokens = @ + params.inputTokens,
                    !.total_output_tokens = @ + params.outputTokens,
                    !.estimated_cost_usd = @ + params.costUsd]]

\* JavaScript truthiness of an optional text: undefined and "" are falsy
Truthy(text) == text # <<>> /\ text[1] # <<>>

\* lines 218-229
PipelineRunOf(params, t) ==
    LET pl == params.pipeline[1]
    IN [id |-> t,
        started |-> ToISO(t),
        completed |-> <<ToISO(t)>>,
        skill_chain |-> pl.skill_chain,
        findings_total |-> IF pl.findings_total = <<>> THEN 0 ELSE pl.findings_total[1],
        findings_by_difficulty |-> <<>>,
        minimax_tasks |-> IF pl.minimax_eligible = <<>> THEN 0 ELSE pl.minimax_eligible[1],
        opus_tasks |-> IF pl.opus_required = <<>> THEN 0 ELSE pl.opus_required[1],
        minimax_cost_usd |-> params.costUsd,
        status |-> IF Truthy(params.error) THEN "failed" ELSE "completed"]

\* mutant of UpdatePipeline: the caller is not looked at
UpdatePipeline_AnyCaller(pr, params, t) ==
    IF params.pipeline # <<>>
    THEN LET pushed == Append(IF pr = <<>> THEN <<>> ELSE pr[1], PipelineRunOf(params, t))
         IN <<IF Len(pushed) > MAX_PIPELINE_RUNS
              THEN LastN(pushed, MAX_PIPELINE_RUNS) ELSE pushed>>
    ELSE pr

\* lines 213-236
UpdatePipeline(pr, params, t) ==
    IF params.pipeline # <<>> /\ Truthy(params.caller)
    THEN LET pushed == Append(IF pr = <<>> THEN <<>> ELSE pr[1], PipelineRunOf(params, t))
         IN <<IF Len(pushed) > MAX_PIPELINE_RUNS
              THEN LastN(pushed, MAX_PIPELINE_RUNS) ELSE pushed>>
    ELSE pr

\* lines 165-236 of recordRequest on the loaded data d: [threw, data];
\* daily_totals.find throws on a document without daily_totals, after the
\* log entry was pushed and the window was updated
RecordBody(d, params, t) ==
    LET d1 == [d EXCEPT
                 !.recent_requests = PushRecent(@, RequestLogOf(params, t)),
                 !.current_window = <<AddToWindow(@[1], params)>>]
    IN IF d.daily_totals = <<>>
       THEN [threw |-> TRUE, data |-> <<d1>>]
       ELSE [threw |-> FALSE,
             data |-> <<[d1 EXCEPT
                 !.daily_totals = <<UpdateDaily(@[1], params, getTodayDate(t))>>,
                 !.pipeline_runs = UpdatePipeline(@, params, t)]>>]

\* recordRequest: ensureLoaded, the body, saveUsageData: [threw, data, file];
\* saveUsageData rejects when the file cannot be written
recordRequest(d, f, params, t, writable) ==
    LET e == ensureLoaded(d, f, t)
    IN IF e.threw THEN [threw |-> TRUE, data |-> e.data, file |-> f]
       ELSE LET b == RecordBody(e.data[1], params, t)
            IN IF b.threw \/ ~writable
               THEN [threw |-> TRUE, data |-> b.data, file |-> f]
               ELSE [threw |-> FALSE, data |-> b.data,
                     file |-> [kind |-> "json", doc |-> b.data[1]]]

\* mutant of RemainingOf: the difference is not clamped at 0
RemainingOf_Unclamped(d) ==
    MAX_PROMPTS_PER_WINDOW - d.current_window[1].prompt_count

\* line 243
RemainingOf(d) ==
    LET r == MAX_PROMPTS_PER_WINDOW - d.current_window[1].prompt_count
    IN IF r > 0 THEN r ELSE 0

\* getRemainingPrompts: [threw, data, ret]
getRemainingPrompts(d, f, t) ==
    LET e == ensureLoaded(d, f, t)
    IN IF e.threw THEN [threw |-> TRUE, data |-> e.data, ret |-> <<>>]
       ELSE [threw |-> FALSE, data |-> e.data, ret |-> <<RemainingOf(e.data[1])>>]

----------------------------------------------------------------------------
(* The ledger driven directly: record and get_remaining, one at a time *)

\* entries written by earlier runs of the program, oldest first
PastRequests(n) ==
    [k \in 1..n |->
        [timestamp |-> ToISO(0 - (n - k + 1) * 1000),
         type |-> "query", task_count |-> 1,
         input_tokens |-> 7, output_tokens |-> 3, cost_usd |-> 5,
         response_time_ms |-> 5, caller |-> <<>>, error |-> <<>>,
         failed_count |-> <<>>]]

PastDays(n) ==
    [k \in 1..n |->
        [date |-> k - n - 1, prompt_count |-> 1, total_input_tokens |-> 7,
         total_output_tokens |-> 3, estimated_cost_usd |-> 5]]

PastRuns(n) ==
    [k \in 1..n |->
        [id |-> 0 - (n - k + 1) * 1000,
         started |-> ToISO(0 - (n - k + 1) * 1000),
         completed |-> <<ToISO(0 - (n - k + 1) * 1000)>>,
         skill_chain |-> <<"review">>, findings_total |-> 0,
         findings_by_difficulty |-> <<>>, minimax_tasks |-> 0, opus_tasks |-> 0,
         minimax_cost_usd |-> 5, status |-> "completed"]]

\* a window created at time 0 that already counted used prompts
UsedWindow(used) == [createNewWindow(0) EXCEPT !.prompt_count = used]

JsonFile(doc) == [kind |-> "json", doc |-> doc]

\* a document of the current format with its collections filled up to
\* fill entries below their caps
FilledDoc(fill, used) ==
    [current_window |-> <<UsedWindow(used)>>,
     daily_totals |-> <<PastDays(MAX_DAILY_TOTALS - fill)>>,
     recent_requests |-> <<PastRequests(MAX_RECENT_REQUESTS - fill)>>,
     pipeline_runs |-> <<PastRuns(MAX_PIPELINE_RUNS - fill)>>,
     provider |-> <<DefaultProvider>>]

\* a document of the first format: current_window and daily_totals only
OldFormatDoc ==
    [current_window |-> <<UsedWindow(MAX_PROMPTS_PER_WINDOW - 1)>>,
     daily_totals |-> <<PastDays(1)>>,
     recent_requests |-> <<>>,
     pipeline_runs |-> <<>>,
     provider |-> <<>>]

\* the durable file: absent, not parseable, or a JSON document
Files ==
    {[kind |-> "absent", doc |-> OldFormatDoc],
     [kind |-> "garbage", doc |-> OldFormatDoc],
     JsonFile(OldFormatDoc),
     JsonFile(FilledDoc(1, MAX_PROMPTS_PER_WINDOW - 2)),
     JsonFile(FilledDoc(0, MAX_PROMPTS_PER_WINDOW)),
     JsonFile([OldFormatDoc EXCEPT !.current_window = <<>>]),
     JsonFile([OldFormatDoc EXCEPT !.daily_totals = <<>>])}

PipelineContexts ==
    {<<>>,
     <<[skill_chain |-> <<"review", "fix">>, findings_total |-> <<4>>,
        minimax_eligible |-> <<>>, opus_required |-> <<1>>]>>}

\* error texts: short, exactly at the length bound, one over it
ErrorTexts ==
    {<<"E">>, TextOfLen(MAX_ERROR_LENGTH), TextOfLen(MAX_ERROR_LENGTH + 1)}

\* the argument of recordRequest as llm_query passes it on success
QueryParams(u, responseTimeMs, caller) ==
    [type |-> "query", taskCount |-> 1,
     inputTokens |-> u.input_tokens, outputTokens |-> u.output_tokens,
     costUsd |-> estimateCost(u), responseTimeMs |-> responseTimeMs,
     caller |-> caller, error |-> <<>>, failedCount |-> <<>>, pipeline |-> <<>>]

\* the argument of recordRequest in the catch branch of either handler
ErrorParams(type, responseTimeMs, caller, errorMsg) ==
    [type |-> type, taskCount |-> 0, inputTokens |-> 0, outputTokens |-> 0,
     costUsd |-> 0, responseTimeMs |-> responseTimeMs,
     caller |-> caller, error |-> <<errorMsg>>, failedCount |-> <<>>,
     pipeline |-> <<>>]

\* mutant of BatchParams: the submitted tasks are counted, not the succeeded
BatchParams_CountSubmitted(sm, responseTimeMs, caller, pipeline) ==
    [type |-> "batch", taskCount |-> sm.total_tasks,
     inputTokens |-> sm.total_input_tokens,
     outputTokens |-> sm.total_output_tokens,
     costUsd |-> sm.total_cost_usd, responseTimeMs |-> responseTimeMs,
     caller |-> caller, error |-> <<>>,
     failedCount |-> IF sm.failed > 0 THEN <<sm.failed>> ELSE <<>>,
     pipeline |-> pipeline]

\* the argument of recordRequest as llm_batch passes it after processBatch
BatchParams(sm, responseTimeMs, caller, pipeline) ==
    [type |-> "batch", taskCount |-> sm.succeeded,
     inputTokens |-> sm.total_input_tokens,
     outputTokens |-> sm.total_output_tokens,
     costUsd |-> sm.total_cost_usd, responseTimeMs |-> responseTimeMs,
     caller |-> caller, error |-> <<>>,
     failedCount |-> IF sm.failed > 0 THEN <<sm.failed>> ELSE <<>>,
     pipeline |-> pipeline]

\* the summary of a batch of two tasks of which k succeeded
SummaryOfTwo(k) ==
    [total_tasks |-> 2, succeeded |-> k, failed |-> 2 - k,
     total_input_tokens |-> 7 * k, total_output_tokens |-> 3 * k,
     total_cost_usd |-> estimateCost([input_tokens |-> 7 * k,
                                      output_tokens |-> 3 * k])]

\* what the handlers pass, and one call no handler makes: an error together
\* with a task count and a pipeline context
RecordParams ==
    {QueryParams([input_tokens |-> 7, output_tokens |-> 3], 5, <<>>)}
    \cup {ErrorParams("query", 5, <<>>, m) : m \in ErrorTexts}
    \cup {ErrorParams("batch", 5, << <<"s">> >>, <<"E">>)}
    \cup {BatchParams(SummaryOfTwo(2), 9, << <<"s">> >>, pl) : pl \in PipelineContexts}
    \cup {BatchParams(SummaryOfTwo(0), 9, << <<>> >>, pl) :
             pl \in PipelineContexts \ {<<>>}}
    \cup {[BatchParams(SummaryOfTwo(1), 9, << <<"s">> >>, pl) EXCEPT !.error = <<m>>] :
             pl \in PipelineContexts \ {<<>>}, m \in {<<"E">>}}

\* last: the operation, its argument, its time, the current window it
\* started from, whether it threw, what it returned
NoOp == [op |-> "none", params |-> <<>>, at |-> 0, window |-> <<>>,
         threw |-> FALSE, ret |-> <<>>]

\* the batch dispatcher at rest
BatchQuiet ==
    /\ env = <<>>
    /\ defaultConcurrency = BatchProcessorNew(<<>>)
    /\ tasks = <<>>
    /\ concurrency = <<>>
    /\ maxConcurrent = NaN
    /\ i = Num(0)
    /\ chunkIdx = <<>>
    /\ calls = <<>>
    /\ results = <<>>
    /\ summary = <<>>
    /\ bpc = "idle"
    /\ gatewayLog = <<>>
    /\ settleLog = <<>>
    /\ peakOutstanding = 0

\* new UsageTracker(): nothing loaded yet
InitLedger ==
    /\ BatchQuiet
    /\ now = 0
    /\ data = <<>>
    /\ file \in Files
    /\ hist = [requests |-> <<>>, days |-> <<>>, runs |-> <<>>]
    /\ last = NoOp
    /\ nOps = 0
    /\ nTicks = 0
    /\ clientOk = TRUE
    /\ call = <<>>
    /\ nLoads = 0
    /\ CostQuiet

\* the data an operation starts from: this.data, or what the first
\* operation loads
LoadedData == IF data = <<>> THEN loadUsageData(file, now) ELSE data[1]

\* the collections as the history sees them when the data is first loaded
HistBase ==
    IF data # <<>> THEN hist
    ELSE [requests |-> LoadedData.recent_requests[1],
          days |-> IF LoadedData.daily_totals = <<>> THEN <<>>
                   ELSE [k \in 1..Len(LoadedData.daily_totals[1]) |->
                            LoadedData.daily_totals[1][k].date],
          runs |-> IF LoadedData.pipeline_runs = <<>> THEN <<>>
                   ELSE LoadedData.pipeline_runs[1]]

\* just before the end of a window created at time 0, exactly its end, a day
ClockSteps == {WINDOW_DURATION_MS - 1, WINDOW_DURATION_MS, DAY_MS}

\* time passes between two operations
Tick(d) ==
    /\ nTicks < MaxTicks
    /\ now' = now + d
    /\ nTicks' = nTicks + 1
    /\ UNCHANGED <<data, file, hist, last, nOps>>
    /\ UNCHANGED <<batchVars, serverVars, costVars>>

\* await usageTracker.getRemainingPrompts()
GetRemainingPrompts ==
    /\ nOps < MaxOps
    /\ LET r == getRemainingPrompts(data, file, now)
       IN /\ data' = r.data
          /\ last' = [op |-> "remaining", params |-> <<>>, at |-> now,
                      window |-> LoadedData.current_window, threw |-> r.threw, ret |-> r.ret]
    /\ hist' = HistBase
    /\ nOps' = nOps + 1
    /\ UNCHANGED <<now, file, nTicks>>
    /\ UNCHANGED <<batchVars, serverVars, costVars>>

\* await usageTracker.recordRequest(params)
RecordRequest(params) ==
    /\ nOps < MaxOps
    /\ LET r == recordRequest(data, file, params, now, TRUE)
           loadedOk == LoadedData.current_window # <<>>
           bodyOk == loadedOk /\ LoadedData.daily_totals # <<>>
       IN /\ data' = r.data
          /\ file' = r.file
          /\ last' = [op |-> "record", params |-> <<params>>, at |-> now,
                      window |-> LoadedData.current_window, threw |-> r.threw, ret |-> <<>>]
          /\ hist' =
               [requests |-> IF loadedOk
                             THEN Append(HistBase.requests, RequestLogOf(params, now))
                             ELSE HistBase.requests,
                days |-> IF bodyOk /\ \A k \in 1..Len(LoadedData.daily_totals[1]) :
                                 LoadedData.daily_totals[1][k].date # getTodayDate(now)
                         THEN Append(HistBase.days, getTodayDate(now))
                         ELSE HistBase.days,
                runs |-> IF bodyOk /\ params.pipeline # <<>> /\ Truthy(params.caller)
                         THEN Append(HistBase.runs, PipelineRunOf(params, now))
                         ELSE HistBase.runs]
    /\ nOps' = nOps + 1
    /\ UNCHANGED <<now, nTicks>>
    /\ UNCHANGED <<batchVars, serverVars, costVars>>

NextLedger ==
    \/ \E d \in ClockSteps : Tick(d)
    \/ GetRemainingPrompts
    \/ \E params \in RecordParams : RecordRequest(params)

SpecLedger == InitLedger /\ [][NextLedger]_vars

----------------------------------------------------------------------------
(* The tool handlers llm_query and llm_batch (index.ts) *)

Calls == 1..MaxCalls

\* error texts: a TypeError of the ledger, a failed write of the file
LedgerErrorText == <<"T">>
WriteErrorText == <<"W">>

NoResult == [kind |-> "none", isError |-> FALSE, prompts_remaining |-> <<>>]

\* { content: [...], isError: true }
ErrorResult(kind) == [kind |-> kind, isError |-> TRUE, prompts_remaining |-> <<>>]

\* the JSON output of a successful call
OkResult(remaining) ==
    [kind |-> "ok", isError |-> FALSE, prompts_remaining |-> <<remaining>>]

\* a handler invocation that has not started; besides the locals of the
\* handler it keeps what the invocation observed: the file as it was when
\* its load began (read), the invocations under way when it started
\* (peers), the current window at its gate read (gate) and just before and
\* after its recordRequest of the outcome (before, after), the taskCount it
\* recorded (counted), the Gateway calls that succeeded for it (fulfilled),
\* and what getRemainingPrompts would return right after its record
\* (remainingAfter)
IdleCall ==
    [pc |-> "idle", kind |-> "none", tasks |-> <<>>, concurrency |-> <<>>,
     caller |-> <<>>, pipeline |-> <<>>, startTime |-> 0, remaining |-> <<>>,
     issued |-> 0, recorded |-> 0, result |-> NoResult,
     read |-> <<>>, peers |-> {}, gate |-> <<>>, before |-> <<>>,
     after |-> <<>>, counted |-> 0, fulfilled |-> 0, remainingAfter |-> <<>>]

\* small documents for the handlers: used prompts in a window created at 0
SmallDoc(used) ==
    [current_window |-> <<UsedWindow(used)>>,
     daily_totals |-> << <<>> >>,
     recent_requests |-> << <<>> >>,
     pipeline_runs |-> <<>>,
     provider |-> <<DefaultProvider>>]

ServerFiles ==
    {[kind |-> "absent", doc |-> SmallDoc(0)],
     JsonFile(SmallDoc(MAX_PROMPTS_PER_WINDOW - 1)),
     JsonFile(SmallDoc(MAX_PROMPTS_PER_WINDOW)),
     JsonFile([SmallDoc(0) EXCEPT !.current_window = <<>>])}

ServerTaskLists == {<<"a">>, <<"a", "b">>}
ServerConcurrency == {<<>>, <<1>>}
ServerCallers == {<< <<"s">> >>}
ServerPipelines == PipelineContexts \ {<<>>}
ServerOutcomes == {Fulfilled([input_tokens |-> 7, output_tokens |-> 3])}
                    \cup {Rejected(m) : m \in ErrorMessages}

\* JavaScript runs a handler to its next suspension before anything else
\* runs: the other handlers and the clock move only while processBatch is
\* not running or is suspended on Gateway calls of its chunk
Suspended == bpc = "idle" \/ (bpc = "await" /\ Outstanding > 0)

\* the invocations start in the order of their numbers
MayStart(c) == IF c = 1 THEN TRUE ELSE call[c - 1].pc # "idle"

\* module initialisation: new UsageTracker(), and new MinimaxClient() which
\* throws without MINIMAX_API_KEY and leaves client and batchProcessor unset
InitServer ==
    /\ BatchQuiet
    /\ now = 0
    /\ data = <<>>
    /\ file \in ServerFiles
    /\ hist = [requests |-> <<>>, days |-> <<>>, runs |-> <<>>]
    /\ last = NoOp
    /\ nOps = 0
    /\ nTicks = 0
    /\ clientOk \in BOOLEAN
    /\ call = [c \in Calls |-> IdleCall]
    /\ nLoads = 0
    /\ CostQuiet

\* the first write of the file fails or not, the write in the catch branch
\* fails or not
WriteChoices == BOOLEAN \X BOOLEAN

\* the catch branch of either handler: record the error; [data, file, cl]
CatchBranch(cl, d, f, errorMsg, w) ==
    LET r == recordRequest(d, f, ErrorParams(cl.kind, now - cl.startTime,
                                             cl.caller, errorMsg), now, w[2])
        counted == IF r.data[1].recent_requests = d[1].recent_requests
                   THEN cl.recorded ELSE cl.recorded + 1
    IN [data |-> r.data, file |-> r.file,
        cl |-> [cl EXCEPT !.pc = "done", !.recorded = counted,
                          !.result = IF r.threw THEN ErrorResult("thrown")
                                     ELSE ErrorResult("error")]]

\* mutant of Refused: a batch passes when it asks for one prompt too many
Refused_BatchOneShort(kind, remaining, nTasks) ==
    IF kind = "query" THEN remaining <= 0 ELSE remaining < nTasks - 1

\* mutant of Refused: a query passes when nothing remains
Refused_QueryPassesAtZero(kind, remaining, nTasks) ==
    IF kind = "query" THEN remaining < 0 ELSE remaining < nTasks

\* mutant of Refused: a batch is refused only when nothing remains
Refused_OnlyAtZero(kind, remaining, nTasks) == remaining <= 0

\* line 62: remaining <= 0; line 154: remaining < tasks.length
Refused(kind, remaining, nTasks) ==
    IF kind = "query" THEN remaining <= 0 ELSE remaining < nTasks

\* the invocations that have started and not ended
UnderWay == {o \in Calls : call[o].pc \notin {"idle", "done"}}

\* lines 61-69 and 153-166: the Quota Gate on the data d (<<>> when this
\* call loads it from the content rf of the file), then the dispatch or the
\* refusal; the variables of the ledger, of the call and of the batch
\* dispatcher are set here
GateAndDispatch(c, cl0, d, rf, w) ==
    LET g == getRemainingPrompts(d, rf, now)
        cl == IF g.threw THEN cl0
              ELSE [cl0 EXCEPT !.gate = g.data[1].current_window]
    IN IF g.threw
       THEN LET cb == CatchBranch(cl, g.data, file, LedgerErrorText, w)
            IN /\ data' = cb.data
               /\ file' = cb.file
               /\ call' = [call EXCEPT ![c] = cb.cl]
               /\ UNCHANGED batchVars
       ELSE /\ data' = g.data
            /\ file' = file
            /\ IF Refused(cl.kind, g.ret[1], Len(cl.tasks))
               THEN /\ call' = [call EXCEPT ![c] =
                           [cl EXCEPT !.pc = "done", !.remaining = g.ret,
                                      !.result = ErrorResult("rateLimit")]]
                    /\ UNCHANGED batchVars
               ELSE IF cl.kind = "query"
                    THEN /\ call' = [call EXCEPT ![c] =
                                [cl EXCEPT !.pc = "calling", !.remaining = g.ret,
                                           !.issued = 1]]
                         /\ UNCHANGED batchVars
                    ELSE /\ call' = [call EXCEPT ![c] =
                                [cl EXCEPT !.pc = "batch", !.remaining = g.ret]]
                         /\ tasks' = cl.tasks
                         /\ concurrency' = cl.concurrency
                         /\ bpc' = "call"
                         /\ maxConcurrent' = NaN
                         /\ i' = Num(0)
                         /\ chunkIdx' = <<>>
                         /\ calls' = <<>>
                         /\ results' = <<>>
                         /\ summary' = <<>>
                         /\ gatewayLog' = <<>>
                         /\ settleLog' = <<>>
                         /\ peakOutstanding' = 0
                         /\ UNCHANGED <<env, defaultConcurrency>>

\* lines 50-69 and 142-166 up to the first suspension: the not-initialized
\* check, then either the start of the load of the file or the Quota Gate
StartCall(c, cl0, w) ==
    /\ call[c].pc = "idle"
    /\ MayStart(c)
    /\ Suspended
    /\ LET cl == [cl0 EXCEPT !.peers = UnderWay \ {c}] IN
       IF ~clientOk
       THEN /\ call' = [call EXCEPT ![c] =
                   [cl EXCEPT !.pc = "done", !.result = ErrorResult("notInit")]]
            /\ UNCHANGED <<data, file, nLoads>>
            /\ UNCHANGED batchVars
       ELSE IF data = <<>>
            THEN /\ call' = [call EXCEPT ![c] =
                             [cl EXCEPT !.pc = "loading", !.read = <<file>>]]
                 /\ UNCHANGED <<data, file, nLoads>>
                 /\ UNCHANGED batchVars
            ELSE /\ GateAndDispatch(c, cl, data, file, w)
                 /\ UNCHANGED nLoads
    /\ UNCHANGED <<now, hist, last, nOps, nTicks, clientOk>>
    /\ UNCHANGED costVars

\* a call of llm_query
StartQuery(c, caller, w) ==
    StartCall(c, [IdleCall EXCEPT !.kind = "query", !.caller = caller,
                                  !.startTime = now], w)

\* a call of llm_batch; one processBatch runs at a time in this model
StartBatch(c, ts, conc, caller, pipeline, w) ==
    /\ bpc = "idle"
    /\ \A o \in Calls : call[o].pc = "loading" => call[o].kind # "batch"
    /\ StartCall(c, [IdleCall EXCEPT !.kind = "batch", !.tasks = ts,
                                     !.concurrency = conc, !.caller = caller,
                                     !.pipeline = pipeline, !.startTime = now], w)

\* ensureLoaded resumes after loadUsageData: this.data is assigned, then
\* the Quota Gate runs; readFile delivers the content the file had when the
\* read began (stale) or the content it has now
LoadDone(c, stale, w) ==
    /\ call[c].pc = "loading"
    /\ Suspended
    /\ nLoads' = nLoads + 1
    /\ GateAndDispatch(c, call[c], <<>>,
                       IF stale THEN call[c].read[1] ELSE file, w)
    /\ UNCHANGED <<now, hist, last, nOps, nTicks, clientOk>>
    /\ UNCHANGED costVars

\* lines 69-112: client.query settles; the outcome is recorded and the
\* result returned, or the catch branch runs
QuerySettle(c, o, w) ==
    /\ call[c].pc = "calling"
    /\ Suspended
    /\ LET cl == call[c]
       IN IF o.status = "rejected"
          THEN LET cb == CatchBranch(cl, data, file, o.reason, w)
               IN /\ data' = cb.data
                  /\ file' = cb.file
                  /\ call' = [call EXCEPT ![c] = cb.cl]
          ELSE LET r == recordRequest(data, file,
                            QueryParams(o.usage, now - cl.startTime, cl.caller),
                            now, w[1])
                   cl1 == [cl EXCEPT !.recorded = @ + 1,
                                     !.before = data[1].current_window,
                                     !.after = r.data[1].current_window,
                                     !.counted = 1,
                                     !.fulfilled = 1,
                                     !.remainingAfter = <<RemainingOf(r.data[1])>>]
               IN IF r.threw
                  THEN LET cb == CatchBranch(cl1, r.data, r.file, WriteErrorText, w)
                       IN /\ data' = cb.data
                          /\ file' = cb.file
                          /\ call' = [call EXCEPT ![c] = cb.cl]
                  ELSE /\ data' = r.data
                       /\ file' = r.file
                       /\ call' = [call EXCEPT ![c] =
                             [cl1 EXCEPT !.pc = "done",
                                         !.result = OkResult(cl.remaining[1] - 1)]]
    /\ UNCHANGED <<now, hist, last, nOps, nTicks, clientOk, nLoads>>
    /\ UNCHANGED costVars
    /\ UNCHANGED batchVars

\* lines 166-211: processBatch has returned; the outcome is recorded and the
\* result returned, or the catch branch runs
BatchFinish(c, w) ==
    /\ call[c].pc = "batch"
    /\ bpc = "done"
    /\ LET cl == [call[c] EXCEPT !.issued = Len(gatewayLog)]
           sm == summary[1]
           params == BatchParams(sm, now - cl.startTime, cl.caller, cl.pipeline)
           r == recordRequest(data, file, params, now, w[1])
           cl1 == [cl EXCEPT !.recorded = @ + 1,
                             !.before = data[1].current_window,
                             !.after = r.data[1].current_window,
                             !.counted = params.taskCount,
                             !.fulfilled = Cardinality({k \in 1..Len(settleLog) :
                                              settleLog[k][2].status = "fulfilled"}),
                             !.remainingAfter = <<RemainingOf(r.data[1])>>]
       IN IF r.threw
          THEN LET cb == CatchBranch(cl1, r.data, r.file, WriteErrorText, w)
               IN /\ data' = cb.data
                  /\ file' = cb.file
                  /\ call' = [call EXCEPT ![c] = cb.cl]
          ELSE /\ data' = r.data
               /\ file' = r.file
               /\ call' = [call EXCEPT ![c] =
                     [cl1 EXCEPT !.pc = "done",
                                 !.result = OkResult(cl.remaining[1] - sm.succeeded)]]
    /\ bpc' = "idle"
    /\ UNCHANGED <<env, defaultConcurrency, tasks, concurrency, maxConcurrent, i,
                   chunkIdx, calls, results, summary, gatewayLog, settleLog,
                   peakOutstanding>>
    /\ UNCHANGED <<now, hist, last, nOps, nTicks, clientOk, nLoads>>
    /\ UNCHANGED costVars

ServerClockSteps == {WINDOW_DURATION_MS}

\* time passes while the handlers are suspended
ServerTick(d) ==
    /\ nTicks < MaxTicks
    /\ Suspended
    /\ now' = now + d
    /\ nTicks' = nTicks + 1
    /\ UNCHANGED <<data, file, hist, last, nOps, clientOk, call, nLoads>>
    /\ UNCHANGED <<batchVars, costVars>>

NextServer ==
    \/ \E c \in Calls, caller \in ServerCallers, w \in WriteChoices :
          StartQuery(c, caller, w)
    \/ \E c \in Calls, ts \in ServerTaskLists, conc \in ServerConcurrency,
         caller \in ServerCallers, pipeline \in ServerPipelines,
         w \in WriteChoices :
          StartBatch(c, ts, conc, caller, pipeline, w)
    \/ \E c \in Calls, stale \in BOOLEAN, w \in WriteChoices :
          LoadDone(c, stale, w)
    \/ \E c \in Calls, o \in ServerOutcomes, w \in WriteChoices : QuerySettle(c, o, w)
    \/ ProcessBatchEnter
    \/ DispatchChunk
    \/ \E j \in 1..MaxTasks, o \in ServerOutcomes : SettleCall(j, o)
    \/ CollectChunk
    \/ ProcessBatchReturn
    \/ \E c \in Calls, w \in WriteChoices : BatchFinish(c, w)
    \/ \E d \in ServerClockSteps : ServerTick(d)

SpecServer == InitServer /\ [][NextServer]_vars

Spec == SpecServer

----------------------------------------------------------------------------
(* estimateCost on its own: token counts grow, the cost is recomputed *)

TokenSteps == {1, 5}

\* everything but estimateCost at rest
InitCost ==
    /\ BatchQuiet
    /\ now = 0
    /\ data = <<>>
    /\ file = [kind |-> "absent", doc |-> OldFormatDoc]
    /\ hist = [requests |-> <<>>, days |-> <<>>, runs |-> <<>>]
    /\ last = NoOp
    /\ nOps = 0
    /\ nTicks = 0
    /\ clientOk = TRUE
    /\ call = <<>>
    /\ nLoads = 0
    /\ usage = ZeroUsage
    /\ cost \in estimateCostValues(usage)

\* estimateCost of a usage with n more input tokens
AddInputTokens(n) ==
    /\ usage.input_tokens + n <= MaxTokens
    /\ usage' = [usage EXCEPT !.input_tokens = @ + n]
    /\ cost' \in estimateCostValues(usage')
    /\ UNCHANGED <<batchVars, ledgerVars, serverVars>>

\* estimateCost of a usage with n more output tokens
AddOutputTokens(n) ==
    /\ usage.output_tokens + n <= MaxTokens
    /\ usage' = [usage EXCEPT !.output_tokens = @ + n]
    /\ cost' \in estimateCostValues(usage')
    /\ UNCHANGED <<batchVars, ledgerVars, serverVars>>

NextCost ==
    \/ \E n \in TokenSteps : AddInputTokens(n)
    \/ \E n \in TokenSteps : AddOutputTokens(n)

SpecCost == InitCost /\ [][NextCost]_vars

\* the cost estimate never decreases when a token count grows
C18_Step ==
    (/\ usage'.input_tokens >= usage.input_tokens
     /\ usage'.output_tokens >= usage.output_tokens) => cost' >= cost

\* the estimate of zero tokens is zero, and no estimate is negative
C18_State == (usage = ZeroUsage => cost = 0) /\ cost >= 0

\* C18: estimate_cost, in units of 1e-6 USD over bounded non-negative token
\* counts, is monotonic non-decreasing in the input token count and in the
\* output token count, and is 0 for zero input and zero output tokens.
C18_CostMonotonic == []C18_State /\ [][C18_Step]_vars

\* C18 witness: a sum that is exactly a half (14 input, 2 output tokens:
\* 4.5e-6 USD) was estimated at the lower of its two possible values, and
\* this is above zero.
C18_Witness ==
    /\ usage = [input_tokens |-> 14, output_tokens |-> 2]
    /\ cost = 4

----------------------------------------------------------------------------
(* Properties of the batch dispatcher, checked under SpecBatch *)

Returned == bpc = "done"

ValidLimit == ~maxConcurrent.nan /\ maxConcurrent.v \in 1..MAX_CONCURRENCY_ARG

SomeCallFailed == \E k \in 1..Len(settleLog) : settleLog[k][2].status = "rejected"

\* C1: when processBatch returns, results has one entry per task and the
\* entry at each position carries the id of the task at that position,
\* whatever the effective concurrency limit (argument or configured default),
\* the settling order and the failures were.
C1_ResultsMirrorTasks ==
    Returned =>
        /\ Len(results) = Len(tasks)
        /\ \A k \in 1..Len(results) : k <= Len(tasks) /\ results[k].id = tasks[k]

\* C2: for a valid effective limit C in 1..20, at most C Gateway calls are
\* issued and not yet settled, in every state of a processBatch execution.
C2_OutstandingAtMostLimit ==
    (bpc # "call" /\ ValidLimit) =>
        /\ Outstanding <= maxConcurrent.v
        /\ peakOutstanding <= maxConcurrent.v

\* C2 witness: the limit binds: as many calls pending as the limit allows
\* while more tasks than the limit were submitted.
C2_Witness ==
    /\ bpc = "await"
    /\ ValidLimit
    /\ Len(tasks) > maxConcurrent.v
    /\ Outstanding = maxConcurrent.v

\* C3: when processBatch returns after at least one Gateway call failed,
\* every failed call's task has a result with success = FALSE, a populated
\* error and zero usage, summary.failed >= 1, and every task was dispatched
\* exactly once and has its own result.
C3_FailureIsolated ==
    (Returned /\ SomeCallFailed) =>
        /\ summary[1].failed >= 1
        /\ Len(results) = Len(tasks)
        /\ \A p \in 1..Len(tasks) :
              /\ Cardinality({k \in 1..Len(gatewayLog) : gatewayLog[k] = p}) = 1
              /\ Cardinality({k \in 1..Len(settleLog) : settleLog[k][1] = p}) = 1
              /\ p <= Len(results)
              /\ results[p].id = tasks[p]
        /\ \A k \in 1..Len(settleLog) :
              LET p == settleLog[k][1]
                  o == settleLog[k][2]
              IN p <= Len(results) /\
                 IF o.status = "rejected"
                 THEN /\ ~results[p].success
                      /\ results[p].error = <<o.reason>>
                      /\ results[p].error[1] # <<>>
                      /\ results[p].usage = ZeroUsage
                 ELSE /\ results[p].success
                      /\ results[p].usage = o.usage

\* C3 witness: a returned batch of several chunks in which the first task
\* failed and a task of a later chunk succeeded.
C3_Witness ==
    /\ Returned
    /\ Len(tasks) = 3
    /\ maxConcurrent = Num(2)
    /\ Len(results) = 3
    /\ ~results[1].success
    /\ results[3].success

\* C4: when processBatch returns, summary.succeeded + summary.failed =
\* len(tasks) = summary.total_tasks, succeeded being the number of returned
\* results with success = TRUE and failed the number with success = FALSE.
C4_SummaryCounts ==
    Returned =>
        /\ summary[1].succeeded + summary[1].failed = Len(tasks)
        /\ summary[1].total_tasks = Len(tasks)
        /\ summary[1].succeeded =
              Cardinality({k \in 1..Len(results) : results[k].success})
        /\ summary[1].failed =
              Cardinality({k \in 1..Len(results) : ~results[k].success})

\* number of Gateway calls issued for the task at position p
IssuedFor(p) == Cardinality({k \in 1..Len(gatewayLog) : gatewayLog[k] = p})

\* C24: under SpecBatchFair (every issued Gateway call eventually settles),
\* for every task list and every effective concurrency limit, the argument
\* or the configured default, processBatch eventually returns, having
\* issued exactly one Gateway call per task.
C24_Terminates ==
    <>(Returned /\ \A p \in 1..Len(tasks) : IssuedFor(p) = 1)

\* the Gateway call issued for the task at position p has settled
Settled(p) == \E m \in 1..Len(settleLog) : settleLog[m][1] = p

\* the group of the task at position p for group size n
GroupOf(p, n) == (p - 1) \div n

\* the calls are issued in task order, one per task; for a valid limit C
\* whole groups of C are issued (the last possibly smaller) and every call
\* not yet settled belongs to the group issued last
C19_State ==
    /\ \A k \in 1..Len(gatewayLog) : gatewayLog[k] = k
    /\ Len(gatewayLog) <= Len(tasks)
    /\ (bpc # "call" /\ ValidLimit) =>
          /\ Len(gatewayLog) % maxConcurrent.v = 0 \/ Len(gatewayLog) = Len(tasks)
          /\ \A p \in 1..Len(gatewayLog) :
                ~Settled(p) =>
                    GroupOf(p, maxConcurrent.v) =
                       GroupOf(Len(gatewayLog), maxConcurrent.v)

\* a step that issues Gateway calls starts where every call issued before
\* has settled, and for a valid limit C issues the next C tasks (or all
\* that are left)
C19_Step ==
    gatewayLog' # gatewayLog =>
        /\ \A k \in 1..Len(gatewayLog) : Settled(gatewayLog[k])
        /\ ValidLimit =>
              LET left == Len(tasks) - Len(gatewayLog)
                  n == IF left < maxConcurrent.v THEN left ELSE maxConcurrent.v
              IN gatewayLog' = gatewayLog \o [j \in 1..n |-> Len(gatewayLog) + j]

\* C19: processBatch partitions the tasks into consecutive groups of size C
\* (the last possibly smaller) and issues no Gateway call of a group before
\* every Gateway call of the group before it has settled, by success or by
\* failure.
C19_ChunkBarrier == []C19_State /\ [][C19_Step]_vars

\* C19 witness: three tasks in groups of two; the second group was issued
\* after the first group settled in the reverse of the task order, one call
\* of it by failure.
C19_Witness ==
    /\ bpc = "await"
    /\ Len(tasks) = 3
    /\ maxConcurrent = Num(2)
    /\ gatewayLog = <<1, 2, 3>>
    /\ Len(settleLog) = 2
    /\ settleLog[1][1] = 2
    /\ settleLog[1][2].status = "rejected"
    /\ Outstanding = 1

----------------------------------------------------------------------------
(* Properties of the usage ledger, checked under SpecLedger *)

\* the operation found a current window and got past ensureLoaded
HadWindow == last.window # <<>>

\* the window the last operation started from had expired when it was called
WasExpired == last.at >= ParseISO(last.window[1].window_end)

CurrentWindow == data[1].current_window[1]

C6_State ==
    (last.op = "record" /\ HadWindow /\ ~WasExpired) =>
        /\ CurrentWindow.prompt_count =
              last.window[1].prompt_count + last.params[1].taskCount
        /\ CurrentWindow.total_input_tokens =
              last.window[1].total_input_tokens + last.params[1].inputTokens
        /\ CurrentWindow.total_output_tokens =
              last.window[1].total_output_tokens + last.params[1].outputTokens
        /\ CurrentWindow.estimated_cost_usd =
              last.window[1].estimated_cost_usd + last.params[1].costUsd
        /\ CurrentWindow.window_start = last.window[1].window_start
        /\ CurrentWindow.window_end = last.window[1].window_end

C6_Step ==
    (/\ data # <<>> /\ data' # <<>>
     /\ data[1].current_window # <<>> /\ data'[1].current_window # <<>>
     /\ data'[1].current_window[1].window_start = data[1].current_window[1].window_start
     /\ data'[1].current_window[1].window_end = data[1].current_window[1].window_end)
    => data'[1].current_window[1].prompt_count >= data[1].current_window[1].prompt_count

\* C6: a record call made while the current window has not expired adds
\* exactly task_count to prompt_count and exactly the supplied amounts to
\* the token and cost counters of that window; and no step makes the
\* prompt_count of a window smaller while the window stays the current one.
C6_RecordAddsExactly == []C6_State /\ [][C6_Step]_vars

\* C6 witness: a second record into the same unexpired window, counting 2.
C6_Witness ==
    /\ last.op = "record" /\ HadWindow /\ ~WasExpired
    /\ nOps = 2
    /\ last.params[1].taskCount = 2
    /\ last.window[1].prompt_count > 0
    /\ last.at > 0

\* C7: a record or get_remaining call made at now >= window_end replaces
\* the window by a fresh one (window_start = now, window_end = now + the
\* window duration, counters zero) before it reads or adds to the counters;
\* a call made at now < window_end keeps the window.
C7_LazyRotation ==
    (last.op \in {"record", "remaining"} /\ HadWindow) =>
        IF WasExpired
        THEN /\ CurrentWindow.window_start = ToISO(last.at)
             /\ ParseISO(CurrentWindow.window_end) = last.at + WINDOW_DURATION_MS
             /\ IF last.op = "record"
                THEN /\ CurrentWindow.prompt_count = last.params[1].taskCount
                     /\ CurrentWindow.total_input_tokens = last.params[1].inputTokens
                     /\ CurrentWindow.total_output_tokens = last.params[1].outputTokens
                     /\ CurrentWindow.estimated_cost_usd = last.params[1].costUsd
                ELSE /\ CurrentWindow.prompt_count = 0
                     /\ CurrentWindow.total_input_tokens = 0
                     /\ CurrentWindow.total_output_tokens = 0
                     /\ CurrentWindow.estimated_cost_usd = 0
                     /\ last.ret = <<MAX_PROMPTS_PER_WINDOW>>
        ELSE /\ CurrentWindow.window_start = last.window[1].window_start
             /\ CurrentWindow.window_end = last.window[1].window_end
             /\ last.op = "remaining" => CurrentWindow = last.window[1]

\* C7 witness: get_remaining called exactly at window_end of a used window.
C7_Witness ==
    /\ last.op = "remaining" /\ HadWindow
    /\ last.at = ParseISO(last.window[1].window_end)
    /\ last.window[1].prompt_count > 0
    /\ CurrentWindow.prompt_count = 0

\* the last n elements of a sequence
Suffix(seq, n) ==
    IF Len(seq) <= n THEN seq ELSE [k \in 1..n |-> seq[Len(seq) - n + k]]

\* C8: recent_requests holds at most 200 entries, daily_totals at most 30
\* and pipeline_runs at most 10, and each holds exactly the most recently
\* appended entries in append order.
C8_CapsFifo ==
    data # <<>> =>
        /\ Len(data[1].recent_requests[1]) <= MAX_RECENT_REQUESTS
        /\ data[1].recent_requests[1] = Suffix(hist.requests, MAX_RECENT_REQUESTS)
        /\ data[1].daily_totals # <<>> =>
              /\ Len(data[1].daily_totals[1]) <= MAX_DAILY_TOTALS
              /\ [k \in 1..Len(data[1].daily_totals[1]) |-> data[1].daily_totals[1][k].date]
                    = Suffix(hist.days, MAX_DAILY_TOTALS)
        /\ LET runs == IF data[1].pipeline_runs = <<>> THEN <<>>
                       ELSE data[1].pipeline_runs[1]
           IN /\ Len(runs) <= MAX_PIPELINE_RUNS
              /\ runs = Suffix(hist.runs, MAX_PIPELINE_RUNS)

\* C8 witness: one record pushed all three collections over their caps.
C8_Witness ==
    /\ data # <<>>
    /\ Len(hist.requests) > MAX_RECENT_REQUESTS
    /\ Len(hist.days) > MAX_DAILY_TOTALS
    /\ Len(hist.runs) > MAX_PIPELINE_RUNS
    /\ Len(data[1].recent_requests[1]) = MAX_RECENT_REQUESTS

\* C9: get_remaining returns max(0, quota_limit - prompt_count) of the
\* window that is current after rotating an expired one, a value in
\* 0..quota_limit.
C9_Remaining ==
    (last.op = "remaining" /\ ~last.threw) =>
        LET counted == IF WasExpired THEN 0 ELSE last.window[1].prompt_count
            diff == MAX_PROMPTS_PER_WINDOW - counted
        IN /\ last.ret = <<IF diff > 0 THEN diff ELSE 0>>
           /\ last.ret[1] \in 0..MAX_PROMPTS_PER_WINDOW
           /\ CurrentWindow.prompt_count = counted

\* C9 witness: the window counts more prompts than the quota and 0 is returned.
C9_Witness ==
    /\ last.op = "remaining" /\ ~last.threw
    /\ CurrentWindow.prompt_count > MAX_PROMPTS_PER_WINDOW
    /\ last.ret = <<0>>

\* C10: a record call with error set adds the supplied task_count to the
\* current window's prompt_count and appends a RequestLogEntry whose error
\* is the supplied text if it has at most 500 characters and otherwise its
\* first 500 characters followed by "...".
C10_ErrorRecorded ==
    (last.op = "record" /\ HadWindow /\ last.params[1].error # <<>>) =>
        LET params == last.params[1]
            text == params.error[1]
            log == data[1].recent_requests[1]
            entry == log[Len(log)]
        IN /\ CurrentWindow.prompt_count =
                 (IF WasExpired THEN 0 ELSE last.window[1].prompt_count)
                   + params.taskCount
           /\ Len(log) >= 1
           /\ entry = hist.requests[Len(hist.requests)]
           /\ entry.timestamp = ToISO(last.at)
           /\ entry.type = params.type
           /\ entry.task_count = params.taskCount
           /\ entry.error =
                 IF Len(text) <= MAX_ERROR_LENGTH THEN <<text>>
                 ELSE <<[k \in 1..(MAX_ERROR_LENGTH + 3) |->
                           IF k <= MAX_ERROR_LENGTH THEN text[k] ELSE "."]>>

\* C10 witness: an error text of 501 characters was recorded as 503.
C10_Witness ==
    /\ last.op = "record" /\ HadWindow /\ last.params[1].error # <<>>
    /\ Len(last.params[1].error[1]) = MAX_ERROR_LENGTH + 1
    /\ Len(data[1].recent_requests[1][Len(data[1].recent_requests[1])].error[1])
          = MAX_ERROR_LENGTH + 3

\* the step is a record call that returned
RecordReturned == nOps' = nOps + 1 /\ last'.op = "record" /\ ~last'.threw

C22_Step ==
    RecordReturned =>
        LET params == last'.params[1]
            pre == LoadedData.pipeline_runs
            post == data'[1].pipeline_runs
        IN IF params.pipeline # <<>> /\ params.caller # <<>> /\ params.caller[1] # <<>>
           THEN /\ post # <<>>
                /\ LET old == IF pre = <<>> THEN <<>> ELSE pre[1]
                       new == post[1]
                       n == Len(new)
                   IN /\ n = (IF Len(old) < MAX_PIPELINE_RUNS
                              THEN Len(old) + 1 ELSE MAX_PIPELINE_RUNS)
                      /\ \A k \in 1..(n - 1) : new[k] = old[Len(old) - (n - 1) + k]
                      /\ new[n].started = ToISO(now)
                      /\ new[n].status =
                            (IF params.error # <<>> /\ params.error[1] # <<>>
                             THEN "failed" ELSE "completed")
                      /\ new[n].minimax_cost_usd = params.costUsd
                      /\ new[n].skill_chain = params.pipeline[1].skill_chain
           ELSE post = pre

\* C22: a record call that returns appends a PipelineRun (evicting the
\* oldest beyond 10) exactly when its argument carries pipeline context and
\* a non-empty caller; the appended run has status failed if the error is
\* set and completed otherwise, and carries the argument's cost and the
\* pipeline's skill_chain; without pipeline context or with an absent or
\* empty caller pipeline_runs is left as it was.
C22_PipelineRunAppended == [][C22_Step]_vars

\* C22 witness: a record with pipeline context, a caller and an error
\* appended a failed run to a full pipeline_runs.
C22_Witness ==
    /\ last.op = "record" /\ ~last.threw
    /\ last.params[1].pipeline # <<>>
    /\ Truthy(last.params[1].caller)
    /\ Truthy(last.params[1].error)
    /\ data[1].pipeline_runs # <<>>
    /\ Len(data[1].pipeline_runs[1]) = MAX_PIPELINE_RUNS
    /\ data[1].pipeline_runs[1][MAX_PIPELINE_RUNS].status = "failed"
    /\ data[1].pipeline_runs[1][MAX_PIPELINE_RUNS].started = ToISO(last.at)

----------------------------------------------------------------------------
(* Properties of the handlers, checked under SpecServer *)

\* Gateway calls issued so far on behalf of invocation c
IssuedBy(c) == IF call[c].pc = "batch" THEN Len(gatewayLog) ELSE call[c].issued

\* C5: a query whose gate read get_remaining() <= 0 and a batch whose gate
\* read get_remaining() < len(tasks) return the rate-limit failure and issue
\* no Gateway call for any task; a call is refused for no other reading.
C5_RefusalBeforeDispatch ==
    \A c \in Calls :
        call[c].remaining # <<>> =>
            LET short == IF call[c].kind = "query"
                         THEN call[c].remaining[1] <= 0
                         ELSE call[c].remaining[1] < Len(call[c].tasks)
            IN /\ short => /\ call[c].pc = "done"
                           /\ call[c].result.kind = "rateLimit"
                           /\ call[c].result.isError
                           /\ IssuedBy(c) = 0
               /\ call[c].result.kind = "rateLimit" => short

\* C5 witness: a batch of two tasks refused as a whole with one prompt
\* remaining, while the other invocation passed the gate and dispatched.
C5_Witness ==
    \E c, q \in Calls :
        /\ call[c].kind = "batch" /\ call[c].result.kind = "rateLimit"
        /\ call[c].remaining = <<1>> /\ Len(call[c].tasks) = 2
        /\ IssuedBy(c) = 0
        /\ call[q].remaining # <<>> /\ IssuedBy(q) > 0

\* a query refused with nothing remaining
C5_QueryRefused ==
    \E q \in Calls :
        /\ call[q].kind = "query" /\ call[q].result.kind = "rateLimit"
        /\ call[q].remaining = <<0>> /\ IssuedBy(q) = 0

\* the invocation recorded the outcome of its dispatch
RecordedOutcome(c) == call[c].after # <<>>

\* two windows are the same window: same start and same end
SameWindow(v, w) == v.window_start = w.window_start /\ v.window_end = w.window_end

\* no other invocation was under way while c was
Alone(c) == call[c].peers = {} /\ \A q \in Calls : c \notin call[q].peers

\* C11: for a batch that passed the gate and whose window did not expire
\* during the call, the record of its outcome raises
\* current_window.prompt_count by exactly summary.succeeded, the number of
\* its Gateway calls that succeeded, not by the number of tasks submitted:
\* across the record itself, and since the gate read when no other
\* invocation overlapped.
C11_BatchCountsSucceeded ==
    \A c \in Calls :
        (call[c].kind = "batch" /\ RecordedOutcome(c)
           /\ SameWindow(call[c].gate[1], call[c].before[1])
           /\ SameWindow(call[c].before[1], call[c].after[1])) =>
            /\ call[c].counted = call[c].fulfilled
            /\ call[c].after[1].prompt_count =
                  call[c].before[1].prompt_count + call[c].counted
            /\ Alone(c) =>
                  call[c].after[1].prompt_count =
                     call[c].gate[1].prompt_count + call[c].fulfilled

\* C11 witness: a batch of two tasks of which one failed at the Gateway
\* returned successfully into a window that already counted a prompt.
C11_Witness ==
    \E c \in Calls :
        /\ call[c].kind = "batch" /\ call[c].result.kind = "ok"
        /\ Len(call[c].tasks) = 2 /\ call[c].fulfilled = 1
        /\ SameWindow(call[c].gate[1], call[c].after[1])
        /\ call[c].before[1].prompt_count > 0
        /\ call[c].after[1].prompt_count = call[c].before[1].prompt_count + 1

----------------------------------------------------------------------------
(* Loading and persistence of the ledger, checked under SpecLedger *)

\* the file holds a document with the two fields every format has
WellFormedFile(f) ==
    f.kind = "json" /\ f.doc.current_window # <<>> /\ f.doc.daily_totals # <<>>

\* C12: whatever the durable file holds (absent, not parseable, or a
\* document lacking current_window or daily_totals), the first
\* get_remaining or record call completes without error, and on a file that
\* is not a well-formed document the ledger continues on a freshly
\* initialized empty state.
C12_LoadNeverFails ==
    nOps = 1 =>
        /\ ~last.threw
        /\ (last.op = "remaining" /\ ~WellFormedFile(file)) =>
              data = <<FreshUsageData(last.at)>>

\* the first operation was a get_remaining that loaded a document of the
\* first format (current_window and daily_totals only) whose window had
\* not expired; get_remaining leaves the file as it was
LoadedOldFormat ==
    /\ nOps = 1 /\ last.op = "remaining" /\ ~last.threw /\ ~WasExpired
    /\ WellFormedFile(file)
    /\ file.doc.recent_requests = <<>>
    /\ file.doc.pipeline_runs = <<>>
    /\ file.doc.provider = <<>>

LastMutated ==
    \/ last.op = "record" /\ ~last.threw
    \/ last.op = "remaining" /\ ~last.threw /\ WasExpired

\* C15: after every mutating operation of the ledger (no operation in
\* progress, every write succeeded) the durable document is the ledger in
\* memory, the replacement of an expired window counting as a mutation in
\* record and in get_remaining alike.
C15_DurableEqualsMemory ==
    LastMutated => file = JsonFile(data[1])

----------------------------------------------------------------------------
(* Failure surface and ledger sharing of the handlers, checked under
   SpecServer *)

\* C13: every invocation of llm_query or llm_batch that ends, ends by
\* returning a result; a failure (client not initialized, quota refusal,
\* Gateway error, failure of a ledger operation) is a result carrying the
\* error indicator, and nothing is thrown past the handler.
C13_FailuresReturned ==
    \A c \in Calls :
        call[c].pc = "done" =>
            /\ call[c].result.kind \in {"ok", "notInit", "rateLimit", "error"}
            /\ call[c].result.kind # "ok" => call[c].result.isError

\* log entries appended by the invocations 1..n
RECURSIVE AppendedBy(_)
AppendedBy(n) == IF n = 0 THEN 0 ELSE call[n].recorded + AppendedBy(n - 1)

\* C14: the durable file is read at most once in the life of the process,
\* also when invocations overlap while the first load is in progress, and
\* every get_remaining and record works on the one copy: the ledger in
\* memory holds every log entry the invocations appended (the files here
\* start with an empty log, far below the cap).
C14_OneCopyOneLoad ==
    /\ nLoads <= 1
    /\ data # <<>> =>
          Len(data[1].recent_requests[1]) = AppendedBy(MaxCalls)

\* C16: the prompts_remaining returned by a successful query or batch is
\* what get_remaining() returns right after the outcome of that call was
\* recorded, whatever the window was at the gate read and at the record
\* (a window that expired between the two included).
C16_RemainingIsUpdated ==
    \A c \in Calls :
        call[c].result.kind = "ok" =>
            call[c].result.prompts_remaining = call[c].remainingAfter

\* the invocation passed the Quota Gate
PassedGate(c) == call[c].gate # <<>> /\ call[c].result.kind # "rateLimit"

\* the prompts the invocation asks for
Need(c) == IF call[c].kind = "query" THEN 1 ELSE Len(call[c].tasks)

\* the current window counts more prompts than the quota
OverQuota ==
    /\ data # <<>>
    /\ data[1].current_window # <<>>
    /\ data[1].current_window[1].prompt_count > MAX_PROMPTS_PER_WINDOW

\* C20: the gate is a read and not a reservation: every invocation that
\* passed it had read a remaining quota sufficient for itself from the
\* window that was current then, and invocations that overlap can each pass
\* on the same reading; prompt_count rises above the quota limit only when
\* two invocations that both passed the gate overlapped, and then it does.
C20_GateIsNotReservation ==
    /\ \A c \in Calls :
          PassedGate(c) =>
              /\ call[c].remaining[1] =
                    MAX_PROMPTS_PER_WINDOW - call[c].gate[1].prompt_count
              /\ call[c].remaining[1] >= Need(c)
    /\ OverQuota =>
          \E c, q \in Calls :
              /\ c # q /\ q \in call[c].peers
              /\ PassedGate(c) /\ PassedGate(q)

\* C20 witness: two overlapping queries both read 1 remaining prompt of the
\* same window at the gate, both succeeded and were recorded, and the
\* window counts 1001 prompts.
C20_Witness ==
    /\ OverQuota
    /\ \E c, q \in Calls :
          /\ c # q /\ q \in call[c].peers
          /\ call[c].remaining = <<1>> /\ call[q].remaining = <<1>>
          /\ SameWindow(call[c].gate[1], call[q].gate[1])
          /\ call[c].result.kind = "ok" /\ call[q].result.kind = "ok"
          /\ SameWindow(call[c].gate[1], data[1].current_window[1])

----------------------------------------------------------------------------
(* Accounting of the handlers, checked under SpecServer *)

\* no invocation started while another one was under way
NeverOverlapped == \A c \in Calls : call[c].peers = {}

\* C21: when the invocations never overlap (each one's gate read, Gateway
\* calls and record end before the next one starts) and the ledger starts
\* with prompt_count <= 1000, prompt_count <= 1000 holds of the current
\* window in every reachable state, in memory and in the durable file, also
\* when the window expires between an invocation's gate read and its record.
C21_SequentialWithinQuota ==
    NeverOverlapped =>
        /\ (data # <<>> /\ data[1].current_window # <<>>) =>
              data[1].current_window[1].prompt_count <= MAX_PROMPTS_PER_WINDOW
        /\ (file.kind = "json" /\ file.doc.current_window # <<>>) =>
              file.doc.current_window[1].prompt_count <= MAX_PROMPTS_PER_WINDOW

\* C21 witness: two invocations one after the other; the first, a batch
\* of two tasks, read 1000 remaining prompts at the gate, the window expired
\* before its record and the record went into a fresh window; the second
\* then passed the gate of that window and was recorded too.
C21_Witness ==
    /\ NeverOverlapped
    /\ \A c \in Calls : call[c].pc = "done" /\ call[c].result.kind = "ok"
    /\ call[1].kind = "batch"
    /\ call[1].counted = 2
    /\ ~SameWindow(call[1].gate[1], call[1].after[1])
    /\ call[1].after[1].prompt_count = 2
    /\ SameWindow(call[2].gate[1], call[1].after[1])
    /\ data[1].current_window[1].prompt_count = 2 + call[2].counted
    /\ call[2].counted > 0

\* the invocation was refused by the Quota Gate or rejected as not initialized
TurnedAway(c) == call[c].result.kind \in {"rateLimit", "notInit"}

C23_State ==
    \A c \in Calls :
        call[c].pc = "done" =>
            /\ PassedGate(c) => call[c].recorded = 1
            /\ TurnedAway(c) => call[c].recorded = 0

C23_Step ==
    \A c \in Calls :
        (call[c].pc # "done" /\ call'[c].pc = "done" /\ TurnedAway(c)') =>
            /\ file' = file
            /\ IF data # <<>> THEN data' = data
               ELSE data' # <<>> =>
                      data'[1] \in {loadUsageData(call[c].read[1], now),
                                    loadUsageData(file, now)}

\* C23: every llm_query or llm_batch invocation that passed the Quota Gate
\* has appended exactly one RequestLogEntry to recent_requests when it ends,
\* whether its Gateway operation succeeded or failed; an invocation refused
\* by the Quota Gate or rejected as not initialized appended none and left
\* the window counters, the daily totals and the pipeline runs as they were.
C23_OneEntryPerPassedCall == []C23_State /\ [][C23_Step]_vars

====
